---- MODULE Spec2Model ----
(***************************************************************************)
(* Second Spectrum "Insight" event deserializer of kloppy.                 *)
(*                                                                         *)
(* The module models                                                       *)
(*   - MetadataJSONParser.extract_periods       (parsers/metadata_json.py) *)
(*   - _parse_insight_datetime, _parse_nearby_event, _parse_period,        *)
(*     _parse_team, _parse_substitution and InsightParser.parse_events     *)
(*                                              (parsers/insight.py)       *)
(*                                                                         *)
(* Python values are modelled as follows.                                  *)
(*   None            the string "None" (for raw events: the record None_ev)*)
(*   datetime        [kind |-> "datetime", date |-> day, second |-> seconds *)
(*                    after 00:00 UTC of that day, microsecond |-> 0..999999]*)
(*   timedelta       [kind |-> "timedelta", v |-> microseconds]            *)
(*   a timestamp string "<date>T<hh:mm:ss>[.<digits>]"                     *)
(*                   [date |-> day, time |-> seconds after local midnight, *)
(*                    dot |-> whether a "." follows, frac |-> the digits]  *)
(*   an exception    the name of its class, stored in `error`              *)
(* List indices are 0-based as in Python; Item(l, k) is l[k].              *)
(***************************************************************************)
EXTENDS Integers, Sequences, FiniteSets, TLC

\* ------------------------------------------------------------------ bounds
\* Longest raw-event feed handed to parse_events.
MaxLen == 3

\* Most digits after the "." of a timestamp string.
MaxFracDigits == 3

\* ------------------------------------------------------- Python primitives
None == "None"

\* The absent neighbour of _parse_nearby_event (Python None in an event slot).
None_ev == [none |-> TRUE]

Datetime(date, second, microsecond) ==
    [kind |-> "datetime", date |-> date, second |-> second,
     microsecond |-> microsecond]

Timedelta(us) == [kind |-> "timedelta", v |-> us]

\* The value of an expression that raises exception class e.
Raise(e) == [raise |-> e]

Raised(x) == "raise" \in DOMAIN x

TypeError == Raise("TypeError")

ValueError == Raise("ValueError")

\* a - b for datetime / timedelta operands (datetimes of one day);
\* timedelta - datetime is a TypeError.
Sub(a, b) ==
    IF a.kind = "datetime" /\ b.kind = "datetime"
        THEN Timedelta((a.second - b.second) * 1000000
                           + (a.microsecond - b.microsecond))
    ELSE IF a.kind = "datetime" /\ b.kind = "timedelta"
        THEN Datetime(a.date,
                      a.second + ((a.microsecond - b.v) \div 1000000),
                      (a.microsecond - b.v) % 1000000)
    ELSE IF a.kind = "timedelta" /\ b.kind = "timedelta" THEN Timedelta(a.v - b.v)
    ELSE TypeError

\* Mutant of Truthy: an `is not None` test, which a zero timedelta passes.
Truthy_is_not_none(x) == x.kind \in {"datetime", "timedelta"}

\* bool(x): a timedelta is false exactly when it is zero, a datetime is always true.
Truthy(x) ==
    \/ x.kind = "datetime"
    \/ x.kind = "timedelta" /\ x.v # 0

\* max(timedelta(0), x): comparing a datetime with a timedelta is a TypeError.
MaxTimedeltaZero(x) ==
    IF x.kind = "timedelta" THEN (IF x.v > 0 THEN x ELSE Timedelta(0))
    ELSE TypeError

\* int(ds) of a non-empty string of decimal digits.
RECURSIVE IntOfDigits(_)
IntOfDigits(ds) ==
    IF ds = << >> THEN 0
    ELSE IntOfDigits(SubSeq(ds, 1, Len(ds) - 1)) * 10 + ds[Len(ds)]

\* str(n) for n >= 0, as a string of decimal digits.
RECURSIVE StrOfInt(_)
StrOfInt(n) == IF n < 10 THEN <<n>> ELSE StrOfInt(n \div 10) \o <<n % 10>>

\* f"{n:03d}": str(n) padded on the left with zeros to a width of at least 3.
RECURSIVE LeftPad3(_)
LeftPad3(ds) == IF Len(ds) >= 3 THEN ds ELSE LeftPad3(<<0>> \o ds)

Format03d(n) == LeftPad3(StrOfInt(n))

RECURSIVE Pow10(_)
Pow10(n) == IF n = 0 THEN 1 ELSE 10 * Pow10(n - 1)

\* l[k] of a Python list, k a valid (possibly negative) index.
Item(l, k) == IF k >= 0 THEN l[k + 1] ELSE l[Len(l) + k + 1]

\* ------------------------------------------------------------ event types
\* Type codes imported from the statsperform deserializer (insight.py 17-53).
EVENT_TYPE_START_PERIOD == "START_PERIOD"

EVENT_TYPE_END_PERIOD == "END_PERIOD"

EVENT_TYPE_PLAYER_ON == "PLAYER_ON"

EVENT_TYPE_PLAYER_OFF == "PLAYER_OFF"

EVENT_TYPE_PASS == "PASS"

EVENT_TYPE_OFFSIDE_PASS == "OFFSIDE_PASS"

EVENT_TYPE_TAKE_ON == "TAKE_ON"

EVENT_TYPE_SHOT_MISS == "SHOT_MISS"

EVENT_TYPE_SHOT_POST == "SHOT_POST"

EVENT_TYPE_SHOT_SAVED == "SHOT_SAVED"

EVENT_TYPE_SHOT_GOAL == "SHOT_GOAL"

EVENT_TYPE_RECOVERY == "RECOVERY"

EVENT_TYPE_CLEARANCE == "CLEARANCE"

EVENT_TYPE_INTERCEPTION == "INTERCEPTION"

EVENT_TYPE_BLOCKED_PASS == "BLOCKED_PASS"

EVENT_TYPE_BALL_TOUCH == "BALL_TOUCH"

EVENT_TYPE_FOUL_COMMITTED == "FOUL_COMMITTED"

EVENT_TYPE_FORMATION_CHANGE == "FORMATION_CHANGE"

EVENT_TYPE_CARD == "CARD"

\* A type code the dispatch table does not name.
EVENT_TYPE_OTHER == "OTHER"

BALL_OUT_EVENTS == {"BALL_OUT", "CORNER_AWARDED"}

DUEL_EVENTS == {"TACKLE", "AERIAL", "FIFTY_FIFTY"}

KEEPER_EVENTS == {"SAVE", "CLAIM", "PUNCH", "KEEPER_PICK_UP", "SMOTHER"}

BALL_OWNING_EVENTS ==
    { EVENT_TYPE_PASS, EVENT_TYPE_OFFSIDE_PASS, EVENT_TYPE_TAKE_ON,
      EVENT_TYPE_SHOT_MISS, EVENT_TYPE_SHOT_POST, EVENT_TYPE_SHOT_SAVED,
      EVENT_TYPE_SHOT_GOAL, EVENT_TYPE_RECOVERY }

DEAD_BALL_EVENTS == BALL_OUT_EVENTS \cup {EVENT_TYPE_FOUL_COMMITTED}

position_line_mapping ==
    [k \in {"1", "2", "3", "4"} |->
        CASE k = "1" -> "Goalkeeper"
          [] k = "2" -> "Defender"
          [] k = "3" -> "Midfielder"
          [] k = "4" -> "Forward"]

\* ------------------------------------------------------ timestamp strings
\* Days on which Europe/London is on British Summer Time (UTC+1).
SummerDates == {"2021-05-01"}

\* pytz Europe/London: seconds to subtract from local time to reach UTC.
LondonUtcOffset(date) == IF date \in SummerDates THEN 3600 ELSE 0

\* Mutant of zero_pad_milliseconds: a fraction that is present is left as written.
zero_pad_milliseconds_unpadded(timestamp) ==
    IF ~timestamp.dot
        THEN [timestamp EXCEPT !.dot = TRUE, !.frac = <<0, 0, 0>>]
    ELSE timestamp

\* zero_pad_milliseconds: the text after the last "." is read as an integer
\* and written back with at least three digits.
zero_pad_milliseconds(timestamp) ==
    IF ~timestamp.dot
        THEN [timestamp EXCEPT !.dot = TRUE, !.frac = <<0, 0, 0>>]
    ELSE IF timestamp.frac = << >> THEN ValueError
    ELSE [timestamp EXCEPT !.frac = Format03d(IntOfDigits(timestamp.frac))]

\* datetime.strptime(s, "...%S.%f"): %f takes one to six digits and reads
\* them as a decimal fraction of a second (padded on the right to six).
Strptime(s) ==
    IF ~s.dot \/ Len(s.frac) = 0 \/ Len(s.frac) > 6 THEN ValueError
    ELSE [date |-> s.date, time |-> s.time,
          microsecond |-> IntOfDigits(s.frac) * Pow10(6 - Len(s.frac))]

\* timezone.localize(naive).astimezone(pytz.utc)
LocalizeToUtc(naive) ==
    Datetime(naive.date, naive.time - LondonUtcOffset(naive.date),
             naive.microsecond)

_parse_insight_datetime(dt_str) ==
    LET padded == zero_pad_milliseconds(dt_str)
    IN  IF Raised(padded) THEN padded
        ELSE LET naive_datetime == Strptime(padded)
             IN  IF Raised(naive_datetime) THEN naive_datetime
                 ELSE LocalizeToUtc(naive_datetime)

\* ---------------------------------------------------------------- metadata
\* The two lineups of extract_lineups: team identifiers and rosters.
teams ==
    << [team_id |-> "home", players |-> {"h1", "h2"}],
       [team_id |-> "away", players |-> {"a1", "a2"}] >>

\* Team.get_player_by_id: the roster member with that identifier, or None.
get_player_by_id(team, player_id) ==
    IF player_id \in team.players THEN player_id ELSE None

\* extract_frame_rate: int(feed.get("fps", 25.0))
extract_frame_rate(feed) == IF feed.fps = None THEN 25 ELSE feed.fps

\* timedelta(seconds = frame_id / frame_rate), in microseconds.
FrameTimedelta(frame_id, frame_rate) ==
    Timedelta((frame_id * 1000000) \div frame_rate)

\* Mutant of extract_periods_from: an entry is kept only when both of its
\* frame indices are non-zero.
RECURSIVE extract_periods_from_both_nonzero(_, _)
extract_periods_from_both_nonzero(feed, k) ==
    IF k > Len(feed.periods) THEN << >>
    ELSE LET period == feed.periods[k]
             start_frame_id == period.startFrameIdx
             end_frame_id == period.endFrameIdx
         IN  (IF start_frame_id # 0 /\ end_frame_id # 0
                THEN << [id |-> period.number,
                         start_timestamp |->
                             FrameTimedelta(start_frame_id, extract_frame_rate(feed)),
                         end_timestamp |->
                             FrameTimedelta(end_frame_id, extract_frame_rate(feed))] >>
                ELSE << >>)
             \o extract_periods_from_both_nonzero(feed, k + 1)

\* extract_periods: the entries whose two frame indices are not both zero, in
\* document order; start and end are timedeltas computed from the frame indices.
RECURSIVE extract_periods_from(_, _)
extract_periods_from(feed, k) ==
    IF k > Len(feed.periods) THEN << >>
    ELSE LET period == feed.periods[k]
             start_frame_id == period.startFrameIdx
             end_frame_id == period.endFrameIdx
         IN  (IF start_frame_id # 0 \/ end_frame_id # 0
                THEN << [id |-> period.number,
                         start_timestamp |->
                             FrameTimedelta(start_frame_id, extract_frame_rate(feed)),
                         end_timestamp |->
                             FrameTimedelta(end_frame_id, extract_frame_rate(feed))] >>
                ELSE << >>)
             \o extract_periods_from(feed, k + 1)

extract_periods(feed) == extract_periods_from(feed, 1)

\* ------------------------------------------------------ dispatcher helpers
\* raw_events[idx + offset] if idx + offset < len(raw_events) else None.
\* A negative idx + offset passes the test and indexes from the end of the list.
_parse_nearby_event(raw_evs, i, offset) ==
    IF (i + offset) < Len(raw_evs) THEN Item(raw_evs, i + offset) ELSE None_ev

\* Mutant of _parse_period: the first period stands in when none matches.
_parse_period_default_first(raw_event, prds) ==
    LET hits == {k \in 1..Len(prds) : prds[k].id = raw_event.period_id}
    IN  IF hits = {} THEN (IF Len(prds) > 0 THEN 1 ELSE 0)
        ELSE CHOOSE k \in hits : \A j \in hits : k <= j

\* next(period for period in periods if period.id == raw_event.period_id, None):
\* the position (1-based) of the first matching period in the list, 0 for None.
_parse_period(raw_event, prds) ==
    LET hits == {k \in 1..Len(prds) : prds[k].id = raw_event.period_id}
    IN  IF hits = {} THEN 0 ELSE CHOOSE k \in hits : \A j \in hits : k <= j

\* Mutant of _parse_team: an unmatched reference falls back to the second team.
_parse_team_default_away(raw_event, tms) ==
    IF raw_event.contestant_id = tms[1].team_id THEN tms[1] ELSE tms[2]

_parse_team(raw_event, tms) ==
    IF raw_event.contestant_id = tms[1].team_id THEN tms[1]
    ELSE IF raw_event.contestant_id = tms[2].team_id THEN tms[2]
    ELSE Raise("DeserializationError")

\* The tail of _parse_substitution once the player-on event is found.
SubstitutionOf(related_event, team) ==
    LET replacement_player == get_player_by_id(team, related_event.player_id)
    IN  IF 44 \in DOMAIN related_event.qualifiers
            THEN IF related_event.qualifiers[44] \in DOMAIN position_line_mapping
                    THEN [replacement_player |-> replacement_player,
                          position |->
                              position_line_mapping[related_event.qualifiers[44]]]
                    ELSE Raise("KeyError")
            \* `position` is assigned only under `if raw_position_line:`
            ELSE Raise("UnboundLocalError")

_parse_substitution(current_event, previous_event, next_event, team) ==
    IF 55 \notin DOMAIN current_event.qualifiers THEN TypeError
    ELSE
      LET related_event_id == current_event.qualifiers[55]
          IsRelated(event) ==
              /\ event.type_id = EVENT_TYPE_PLAYER_ON
              /\ event.event_id = related_event_id
      IN  \* for event in (previous_event, next_event): event.type_id ...
          IF previous_event = None_ev THEN Raise("AttributeError")
          ELSE IF IsRelated(previous_event)
              THEN SubstitutionOf(previous_event, team)
          ELSE IF next_event = None_ev THEN Raise("AttributeError")
          ELSE IF IsRelated(next_event)
              THEN SubstitutionOf(next_event, team)
          ELSE Raise("DeserializationError")

\* ----------------------------------------------------- event construction
\* _get_event_type_name: the readable name of a type code.
_get_event_type_name(type_id) == type_id

\* Mutant of GenericEventKwargs: the ball also counts as dead while no team
\* has taken possession yet.
GenericEventKwargs_dead_without_possession(raw_event, team, period, possession) ==
    [ period |-> period.id,
      timestamp |-> Sub(raw_event.timestamp, period.start_timestamp),
      ball_owning_team |-> possession,
      ball_state |-> IF raw_event.type_id \in DEAD_BALL_EVENTS \/ possession = None
                        THEN "DEAD" ELSE "ALIVE",
      event_id |-> raw_event.id,
      team |-> team.team_id,
      player |-> get_player_by_id(team, raw_event.player_id) ]

\* generic_event_kwargs (the fields every canonical event carries).
GenericEventKwargs(raw_event, team, period, possession) ==
    [ period |-> period.id,
      timestamp |-> Sub(raw_event.timestamp, period.start_timestamp),
      ball_owning_team |-> possession,
      ball_state |-> IF raw_event.type_id \in DEAD_BALL_EVENTS
                        THEN "DEAD" ELSE "ALIVE",
      event_id |-> raw_event.id,
      team |-> team.team_id,
      player |-> get_player_by_id(team, raw_event.player_id) ]

\* event_factory.build_<kind>(**kwargs): the canonical event.
Build(kwargs, kind, event_name) ==
    kwargs @@ [ kind |-> kind, event_name |-> event_name,
                replacement_player |-> None, position |-> None ]

\* The goal branch: qualifier 374, when present, replaces the timestamp.
BuildShot(raw_event, period, kwargs) ==
    IF raw_event.type_id = EVENT_TYPE_SHOT_GOAL /\ 374 \in DOMAIN raw_event.qualifiers
        THEN LET naive_datetime == Strptime(raw_event.qualifiers[374])
             IN  IF Raised(naive_datetime) THEN naive_datetime
                 ELSE Build([kwargs EXCEPT !.timestamp =
                                Sub(LocalizeToUtc(naive_datetime),
                                    period.start_timestamp)],
                            "shot", None)
        ELSE Build(kwargs, "shot", None)

BuildFormationChange(kwargs) ==
    LET timestamp == MaxTimedeltaZero(kwargs.timestamp)
    IN  IF Raised(timestamp) THEN timestamp
        ELSE Build([kwargs EXCEPT !.timestamp = timestamp], "formation_change", None)

BuildSubstitution(raw_event, previous_event, next_event, team, kwargs) ==
    LET timestamp == MaxTimedeltaZero(kwargs.timestamp)
    IN  IF Raised(timestamp) THEN timestamp
        ELSE LET substitution_event_kwargs ==
                     _parse_substitution(raw_event, previous_event, next_event, team)
             IN  IF Raised(substitution_event_kwargs) THEN substitution_event_kwargs
                 ELSE substitution_event_kwargs
                      @@ Build([kwargs EXCEPT !.timestamp = timestamp],
                               "substitution", None)

\* The type-specific dispatch of parse_events: the canonical event built for an
\* ordinary raw event of a started period, or the exception raised on the way.
BuildEvent(raw_event, team, period, previous_event, next_event, possession) ==
    LET kwargs == GenericEventKwargs(raw_event, team, period, possession)
        type_id == raw_event.type_id
    IN  IF type_id = EVENT_TYPE_PASS THEN Build(kwargs, "pass", None)
        ELSE IF type_id = EVENT_TYPE_OFFSIDE_PASS THEN Build(kwargs, "pass", None)
        ELSE IF type_id = EVENT_TYPE_TAKE_ON THEN Build(kwargs, "take_on", None)
        ELSE IF type_id \in { EVENT_TYPE_SHOT_MISS, EVENT_TYPE_SHOT_POST,
                              EVENT_TYPE_SHOT_SAVED, EVENT_TYPE_SHOT_GOAL }
            THEN BuildShot(raw_event, period, kwargs)
        ELSE IF type_id = EVENT_TYPE_RECOVERY THEN Build(kwargs, "recovery", None)
        ELSE IF type_id = EVENT_TYPE_CLEARANCE THEN Build(kwargs, "clearance", None)
        ELSE IF type_id \in DUEL_EVENTS THEN Build(kwargs, "duel", None)
        ELSE IF type_id \in {EVENT_TYPE_INTERCEPTION, EVENT_TYPE_BLOCKED_PASS}
            THEN Build(kwargs, "interception", None)
        ELSE IF type_id \in KEEPER_EVENTS
            THEN IF 94 \in DOMAIN raw_event.qualifiers
                    THEN Build(kwargs, "generic", "block")
                    ELSE Build(kwargs, "goalkeeper", None)
        ELSE IF type_id = EVENT_TYPE_BALL_TOUCH /\ raw_event.outcome = 0
            THEN Build(kwargs, "miscontrol", None)
        ELSE IF type_id = EVENT_TYPE_FOUL_COMMITTED /\ raw_event.outcome = 0
            THEN Build(kwargs, "foul_committed", None)
        ELSE IF type_id \in BALL_OUT_EVENTS THEN Build(kwargs, "ball_out", None)
        ELSE IF type_id = EVENT_TYPE_FORMATION_CHANGE
            THEN BuildFormationChange(kwargs)
        ELSE IF type_id = EVENT_TYPE_PLAYER_OFF
            THEN BuildSubstitution(raw_event, previous_event, next_event, team, kwargs)
        ELSE IF type_id = EVENT_TYPE_CARD THEN Build(kwargs, "card", None)
        ELSE Build(kwargs, "generic", _get_event_type_name(type_id))

\* deserializer.should_include_event: no allowlist accepts every event.
should_include_event(event, allowlist) ==
    allowlist = {} \/ event.kind \in allowlist

\* transformer.transform_event rewrites coordinates only; the model has none.
transform_event(event) == event

\* Mutant of UpdatePossession: every dispatched event takes possession.
UpdatePossession_always(raw_event, team, possession) == team.team_id

\* `if raw_event.type_id in BALL_OWNING_EVENTS: possession_team = team`
UpdatePossession(raw_event, team, possession) ==
    IF raw_event.type_id \in BALL_OWNING_EVENTS THEN team.team_id ELSE possession

\* Mutant of AppendEvent: the event is inserted at the head of the list.
AppendEvent_at_head(evs, event) == <<event>> \o evs

\* events.append(event)
AppendEvent(evs, event) == Append(evs, event)

\* -------------------------------------------------------------------- state
VARIABLES
    feed,             \* the metadata document (fps, periods)
    event_types,      \* the caller's event-type allowlist ({} = none given)
    raw_events,       \* the raw events handed to parse_events
    periods,          \* the Period list; parse_events mutates it in place
    idx,              \* parse_events: index of the raw event to process next
    possession_team,  \* parse_events: current ball-owning team
    events,           \* parse_events: the output list
    locals,           \* parse_events: neighbours looked up by the last iteration
    pc,               \* "start" | "loop" | "returned" | "raised" | "parsed" | "selected" | "extracted"
    error,            \* class of the exception that ended the parse
    dt_str,           \* _parse_insight_datetime: its argument
    dt_out,           \* _parse_insight_datetime: its result
    stream,           \* parser factories: the byte stream handed in (content, offset)
    factory           \* parser factories: the call and what it selected

vars ==
    << feed, event_types, raw_events, periods, idx, possession_team, events,
       locals, pc, error, dt_str, dt_out, stream, factory >>

\* ------------------------------------------------------------------- inputs
MatchDate == "2021-05-01"

PlayerOf(contestant_id) ==
    IF contestant_id = "home" THEN "h1"
    ELSE IF contestant_id = "away" THEN "a1" ELSE "x1"

\* A raw event without its position-dependent fields (id, timestamp).
Template(type_id, period_id, contestant_id, event_id, qualifiers) ==
    [ type_id |-> type_id, period_id |-> period_id,
      contestant_id |-> contestant_id, player_id |-> PlayerOf(contestant_id),
      event_id |-> event_id, outcome |-> 1, qualifiers |-> qualifiers ]

NoQualifiers == << >>

\* Qualifier 374 of a goal: "2021-05-01 20:00:15.5" London time.
GoalTime == [date |-> MatchDate, time |-> 72015, dot |-> TRUE, frac |-> <<5>>]

\* The raw events a feed is made of: period markers of both periods, passes of
\* both teams and periods, a type outside the dispatch table, events of a team
\* the metadata does not know, a substitution pair and a goal with qualifier 374.
Templates ==
    { Template(EVENT_TYPE_START_PERIOD, 1, "home", 1, NoQualifiers),
      Template(EVENT_TYPE_START_PERIOD, 2, "away", 1, NoQualifiers),
      Template(EVENT_TYPE_END_PERIOD, 1, "home", 1, NoQualifiers),
      Template(EVENT_TYPE_PASS, 1, "home", 1, NoQualifiers),
      Template(EVENT_TYPE_PASS, 1, "away", 1, NoQualifiers),
      Template(EVENT_TYPE_PASS, 2, "away", 1, NoQualifiers),
      Template(EVENT_TYPE_OTHER, 1, "home", 1, NoQualifiers),
      Template(EVENT_TYPE_PASS, 1, "other", 1, NoQualifiers),
      Template(EVENT_TYPE_START_PERIOD, 2, "other", 1, NoQualifiers),
      Template(EVENT_TYPE_PLAYER_ON, 1, "home", 7, 44 :> "2"),
      Template(EVENT_TYPE_PLAYER_OFF, 1, "home", 1, 55 :> 7),
      Template(EVENT_TYPE_SHOT_GOAL, 1, "away", 1, 374 :> GoalTime) }

\* The timeStamp strings of a feed: the i-th record (i from 1) is stamped ten
\* seconds after the one before, "2021-05-01T20:00:10", "2021-05-01T20:00:20", ...
FeedTimestamps ==
    [ i \in 1..(MaxLen + 1) |->
        _parse_insight_datetime(
            [date |-> MatchDate, time |-> 72000 + 10 * i, dot |-> FALSE, frac |-> << >>]) ]

\* extract_events: the OptaEvent built from the i-th record of the feed.
RawEventAt(i, template) ==
    [ id |-> i,
      event_id |-> template.event_id,
      type_id |-> template.type_id,
      period_id |-> template.period_id,
      timestamp |-> FeedTimestamps[i],
      contestant_id |-> template.contestant_id,
      player_id |-> template.player_id,
      outcome |-> template.outcome,
      qualifiers |-> template.qualifiers ]

\* extract_events: the raw events of a feed whose records are `templates`.
extract_events(templates) ==
    [i \in 1..Len(templates) |-> RawEventAt(i, templates[i])]

PeriodEntry(number, frames) ==
    [number |-> number, startFrameIdx |-> frames[1], endFrameIdx |-> frames[2]]

\* Metadata documents: period 1 starts at frame 0 or later, period 2 is
\* unplayed (both indices zero) or played.
MetadataFeeds ==
    { [ fps |-> None,
        periods |-> << PeriodEntry(1, f1), PeriodEntry(2, f2) >> ] :
        f1 \in { <<0, 5>>, <<3, 5>> }, f2 \in { <<0, 0>>, <<4, 9>> } }

Allowlists == { {}, {"pass"} }

NoLocals ==
    [ idx |-> -1, previous_event |-> None_ev, next_event |-> None_ev,
      next_next_event |-> None_ev ]

Init ==
    /\ feed = None
    /\ event_types = {}
    /\ raw_events = << >>
    /\ periods = << >>
    /\ idx = 0
    /\ possession_team = None
    /\ events = << >>
    /\ locals = NoLocals
    /\ pc = "start"
    /\ error = None
    /\ dt_str = None
    /\ dt_out = None
    /\ stream = None
    /\ factory = None

\* ------------------------------------------------------------------ actions
\* deserialize, up to the first iteration of parse_events: the caller's inputs
\* are read, the periods are extracted from the metadata, the raw events from
\* the feed, and parse_events initialises its loop state.
Deserialize ==
    /\ pc = "start"
    /\ \E document \in MetadataFeeds, allowlist \in Allowlists, n \in 0..MaxLen :
        \E templates \in [1..n -> Templates] :
            /\ feed' = document
            /\ event_types' = allowlist
            /\ raw_events' = extract_events(templates)
            /\ periods' = extract_periods(document)
    /\ possession_team' = None
    /\ events' = << >>
    /\ idx' = 0
    /\ pc' = "loop"
    /\ UNCHANGED <<locals, error, dt_str, dt_out, stream, factory>>

InLoop == pc = "loop" /\ idx < Len(raw_events)

\* The three neighbour lookups at the head of an iteration.
LocalsAt(i) ==
    [ idx |-> i,
      previous_event |-> _parse_nearby_event(raw_events, i, -1),
      next_event |-> _parse_nearby_event(raw_events, i, 1),
      next_next_event |-> _parse_nearby_event(raw_events, i, 2) ]

\* An iteration that falls through to `continue` or to the end of the body.
NextIteration ==
    /\ locals' = LocalsAt(idx)
    /\ idx' = idx + 1
    /\ UNCHANGED <<feed, event_types, raw_events, pc, error, dt_str, dt_out, stream, factory>>

\* _parse_team raises: the parse ends with DeserializationError.
UnknownTeam ==
    /\ InLoop
    /\ Raised(_parse_team(Item(raw_events, idx), teams))
    /\ pc' = "raised"
    /\ error' = _parse_team(Item(raw_events, idx), teams).raise
    /\ UNCHANGED << feed, event_types, raw_events, periods, idx, possession_team,
                    events, locals, dt_str, dt_out, stream, factory >>

\* `if period is None: continue`
SkipUnknownPeriod ==
    /\ InLoop
    /\ ~Raised(_parse_team(Item(raw_events, idx), teams))
    /\ _parse_period(Item(raw_events, idx), periods) = 0
    /\ NextIteration
    /\ UNCHANGED <<periods, possession_team, events>>

\* The guard shared by the branches below: team and period resolved.
Resolved ==
    /\ InLoop
    /\ ~Raised(_parse_team(Item(raw_events, idx), teams))
    /\ _parse_period(Item(raw_events, idx), periods) # 0

StartPeriod ==
    /\ Resolved
    /\ Item(raw_events, idx).type_id = EVENT_TYPE_START_PERIOD
    /\ periods' = [periods EXCEPT
                      ![_parse_period(Item(raw_events, idx), periods)].start_timestamp =
                          Item(raw_events, idx).timestamp]
    /\ NextIteration
    /\ UNCHANGED <<possession_team, events>>

EndPeriod ==
    /\ Resolved
    /\ Item(raw_events, idx).type_id = EVENT_TYPE_END_PERIOD
    /\ periods' = [periods EXCEPT
                      ![_parse_period(Item(raw_events, idx), periods)].end_timestamp =
                          Item(raw_events, idx).timestamp]
    /\ NextIteration
    /\ UNCHANGED <<possession_team, events>>

SkipPlayerOn ==
    /\ Resolved
    /\ Item(raw_events, idx).type_id = EVENT_TYPE_PLAYER_ON
    /\ NextIteration
    /\ UNCHANGED <<periods, possession_team, events>>

Ordinary ==
    /\ Resolved
    /\ Item(raw_events, idx).type_id \notin
           {EVENT_TYPE_START_PERIOD, EVENT_TYPE_END_PERIOD, EVENT_TYPE_PLAYER_ON}

\* `if not period.start_timestamp: continue`
SkipNotStarted ==
    /\ Ordinary
    /\ ~Truthy(periods[_parse_period(Item(raw_events, idx), periods)].start_timestamp)
    /\ NextIteration
    /\ UNCHANGED <<periods, possession_team, events>>

\* The rest of the body: possession update, construction of the canonical
\* event (which may raise), inclusion filter, transformation and append.
DispatchEvent ==
    /\ Ordinary
    /\ Truthy(periods[_parse_period(Item(raw_events, idx), periods)].start_timestamp)
    /\ LET raw_event == Item(raw_events, idx)
           team == _parse_team(raw_event, teams)
           period == periods[_parse_period(raw_event, periods)]
           possession == UpdatePossession(raw_event, team, possession_team)
           event == BuildEvent(raw_event, team, period,
                               _parse_nearby_event(raw_events, idx, -1),
                               _parse_nearby_event(raw_events, idx, 1),
                               possession)
       IN  /\ possession_team' = possession
           /\ locals' = LocalsAt(idx)
           /\ IF Raised(event)
                THEN /\ pc' = "raised"
                     /\ error' = event.raise
                     /\ UNCHANGED <<idx, events>>
                ELSE /\ events' = IF should_include_event(event, event_types)
                                     THEN AppendEvent(events, transform_event(event))
                                     ELSE events
                     /\ idx' = idx + 1
                     /\ UNCHANGED <<pc, error>>
    /\ UNCHANGED <<feed, event_types, raw_events, periods, dt_str, dt_out, stream, factory>>

\* `return events` once the loop is exhausted.
Return ==
    /\ pc = "loop"
    /\ idx = Len(raw_events)
    /\ pc' = "returned"
    /\ UNCHANGED << feed, event_types, raw_events, periods, idx, possession_team,
                    events, locals, error, dt_str, dt_out, stream, factory >>

\* _parse_insight_datetime applied to a timestamp string of the feed.
Dates == {"2021-01-15", MatchDate}

ClockTimes == {43200, 72000}

ParseInsightDatetime ==
    /\ pc = "start"
    /\ \E date \in Dates, time \in ClockTimes, dot \in BOOLEAN, n \in 0..MaxFracDigits :
        \E frac \in [1..n -> 0..9] :
            /\ dot \/ n = 0
            /\ dt_str' = [date |-> date, time |-> time, dot |-> dot, frac |-> frac]
            /\ dt_out' = _parse_insight_datetime(dt_str')
    /\ pc' = "parsed"
    /\ UNCHANGED << feed, event_types, raw_events, periods, idx, possession_team,
                    events, locals, error, stream, factory >>

\* ------------------------------------------------------- parser factories
\* An IO[bytes] stream: its content and the current offset.  A metadata stream
\* is a sequence of bytes; an event stream is modelled line by line.
Min(a, b) == IF a < b THEN a ELSE b

\* feed.read(n) (feed.readline() on a stream of lines, n = 1): the data from
\* the offset on, at most n units, and the stream advanced past it.
Read(f, n) ==
    [ data |-> SubSeq(f.content, f.offset + 1, Min(f.offset + n, Len(f.content))),
      stream |-> [f EXCEPT !.offset = Min(f.offset + n, Len(f.content))] ]

\* feed.read() and `for line in feed`: everything from the offset to the end.
ReadToEnd(f) == Read(f, Len(f.content))

\* Mutant of Seek: the stream is left where detection stopped.
Seek_ignored(f, offset) == f

\* feed.seek(offset)
Seek(f, offset) == [f EXCEPT !.offset = offset]

\* str.upper() on the letters the format tags are written with.
UpperChar(c) ==
    CASE c = "j" -> "J" [] c = "s" -> "S" [] c = "o" -> "O" [] c = "n" -> "N"
      [] c = "x" -> "X" [] c = "m" -> "M" [] c = "l" -> "L" [] OTHER -> c

Upper(str) == [i \in DOMAIN str |-> UpperChar(str[i])]

\* Lines of an event stream: a JSON object with the key "optaEvent", a JSON
\* object without it, and a line that is not JSON.
EventLines == {"optaEvent", "other", "invalid"}

\* json.loads(line) of the line readline() returned (empty at end of stream).
JsonLoads(data) ==
    IF data = << >> \/ data[1] = "invalid" THEN Raise("JSONDecodeError")
    ELSE [keys |-> IF data[1] = "optaEvent" THEN {"optaEvent"} ELSE {}]

\* InsightParser.__init__: json.loads of every line from the offset on.
InsightParser(f) ==
    LET lines == ReadToEnd(f).data
    IN  IF \E k \in 1..Len(lines) : lines[k] = "invalid"
            THEN Raise("JSONDecodeError")
            ELSE [parser |-> "InsightParser", read |-> lines]

\* MetadataJSONParser.__init__: feed.read() from the offset on.
MetadataJSONParser(f) ==
    [parser |-> "MetadataJSONParser", read |-> ReadToEnd(f).data]

\* get_event_parser: what detection read, the parser class selected (None if
\* none), the constructed parser or the exception raised, and the stream after.
get_event_parser(f, feed_code) ==
    LET Select(g, code, detection) ==
            IF code = "Insight"
                THEN [ detection |-> detection, selected |-> "InsightParser",
                       result |-> InsightParser(g), stream |-> ReadToEnd(g).stream ]
                ELSE [ detection |-> detection, selected |-> None,
                       result |-> Raise("NotImplementedError"), stream |-> g ]
    IN  IF ~feed_code.given
            THEN LET line == Read(f, 1)
                     first_dict == JsonLoads(line.data)
                 IN  IF Raised(first_dict)
                         THEN [ detection |-> line.data, selected |-> None,
                                result |-> first_dict, stream |-> line.stream ]
                     ELSE IF "optaEvent" \in first_dict.keys
                         THEN Select(Seek(line.stream, 0), "Insight", line.data)
                     ELSE [ detection |-> line.data, selected |-> None,
                            result |-> Raise("NotImplementedError"),
                            stream |-> line.stream ]
            ELSE Select(f, feed_code.value, << >>)

\* get_metadata_parser
get_metadata_parser(f, feed_format) ==
    LET Select(g, format, detection) ==
            IF Upper(format) = <<"J", "S", "O", "N">>
                THEN [ detection |-> detection, selected |-> "MetadataJSONParser",
                       result |-> MetadataJSONParser(g),
                       stream |-> ReadToEnd(g).stream ]
                ELSE [ detection |-> detection, selected |-> None,
                       result |-> Raise("NotImplementedError"), stream |-> g ]
    IN  IF ~feed_format.given
            THEN LET first_char == Read(f, 1)
                 IN  Select(Seek(first_char.stream, 0),
                            IF first_char.data = <<"<">> THEN <<"X", "M", "L">>
                                                         ELSE <<"J", "S", "O", "N">>,
                            first_char.data)
            ELSE Select(f, feed_format.value, << >>)

\* The optional tag argument: absent (None) or a string.
NoTag == [given |-> FALSE]

Tag(value) == [given |-> TRUE, value |-> value]

\* Inputs of the factories: a freshly opened stream and the caller's tag.
MetadataBytes == {"<", "{", "x"}

FeedFormats ==
    { NoTag, Tag(<<"J", "S", "O", "N">>), Tag(<<"j", "s", "o", "n">>),
      Tag(<<"J", "s", "o", "n">>), Tag(<<"X", "M", "L">>), Tag(<<"x", "m", "l">>) }

FeedCodes == {NoTag, Tag("Insight"), Tag("insight"), Tag("Dragon")}

GetEventParser ==
    /\ pc = "start"
    /\ \E n \in 0..MaxLen, feed_code \in FeedCodes :
        \E content \in [1..n -> EventLines] :
            LET out == get_event_parser([content |-> content, offset |-> 0], feed_code)
            IN  /\ stream' = out.stream
                /\ factory' = [ function |-> "get_event_parser", content |-> content,
                                tag |-> feed_code, detection |-> out.detection,
                                selected |-> out.selected, result |-> out.result ]
    /\ pc' = "selected"
    /\ UNCHANGED << feed, event_types, raw_events, periods, idx, possession_team,
                    events, locals, error, dt_str, dt_out >>

GetMetadataParser ==
    /\ pc = "start"
    /\ \E n \in 0..MaxLen, feed_format \in FeedFormats :
        \E content \in [1..n -> MetadataBytes] :
            LET out == get_metadata_parser([content |-> content, offset |-> 0],
                                           feed_format)
            IN  /\ stream' = out.stream
                /\ factory' = [ function |-> "get_metadata_parser", content |-> content,
                                tag |-> feed_format, detection |-> out.detection,
                                selected |-> out.selected, result |-> out.result ]
    /\ pc' = "selected"
    /\ UNCHANGED << feed, event_types, raw_events, periods, idx, possession_team,
                    events, locals, error, dt_str, dt_out >>

\* ------------------------------------------------------ period extraction
\* Frame indices of a period entry: unplayed, started at frame 0, ended at
\* frame 0, and both non-zero.
FramePairs == { <<0, 0>>, <<0, 5>>, <<3, 0>>, <<3, 5>> }

\* Metadata documents with up to MaxLen period entries, numbered in order.
PeriodDocuments ==
    UNION { { [ fps |-> None,
                periods |-> [k \in 1..n |-> PeriodEntry(k, frames[k])] ] :
              frames \in [1..n -> FramePairs] } :
            n \in 0..MaxLen }

\* metadata_parser.extract_periods() on one metadata document.
ExtractPeriods ==
    /\ pc = "start"
    /\ \E document \in PeriodDocuments :
        /\ feed' = document
        /\ periods' = extract_periods(document)
    /\ pc' = "extracted"
    /\ UNCHANGED << event_types, raw_events, idx, possession_team, events, locals,
                    error, dt_str, dt_out, stream, factory >>

Next ==
    \/ ParseInsightDatetime
    \/ ExtractPeriods
    \/ GetEventParser
    \/ GetMetadataParser
    \/ Deserialize
    \/ UnknownTeam
    \/ SkipUnknownPeriod
    \/ StartPeriod
    \/ EndPeriod
    \/ SkipPlayerOn
    \/ SkipNotStarted
    \/ DispatchEvent
    \/ Return

Spec == Init /\ [][Next]_vars

\* ------------------------------------------- feeds of the type dispatch table
\* Raw events of one period that exercise the branches of the dispatch table:
\* dead-ball types, the keeper family with and without qualifier 94, a
\* formation change, and a player-off with the player-on events it may refer
\* to (with and without qualifier 44, of the same and of the other team).
DispatchTemplates ==
    { Template(EVENT_TYPE_START_PERIOD, 1, "home", 1, NoQualifiers),
      Template(EVENT_TYPE_PASS, 1, "home", 1, NoQualifiers),
      Template(EVENT_TYPE_FOUL_COMMITTED, 1, "away", 1, NoQualifiers),
      Template("BALL_OUT", 1, "home", 1, NoQualifiers),
      Template("SAVE", 1, "home", 1, NoQualifiers),
      Template("SAVE", 1, "home", 1, 94 :> "1"),
      Template("CLAIM", 1, "away", 1, 94 :> "1"),
      Template(EVENT_TYPE_PLAYER_ON, 1, "home", 7, 44 :> "2"),
      Template(EVENT_TYPE_PLAYER_ON, 1, "home", 7, NoQualifiers),
      Template(EVENT_TYPE_PLAYER_ON, 1, "away", 7, 44 :> "2"),
      Template(EVENT_TYPE_PLAYER_OFF, 1, "home", 1, 55 :> 7),
      Template(EVENT_TYPE_FORMATION_CHANGE, 1, "home", 1, NoQualifiers) }

\* Metadata documents declaring the one period, from frame 0 or from a later frame.
DispatchMetadataFeeds ==
    { [ fps |-> None, periods |-> << PeriodEntry(1, f1) >> ] :
        f1 \in { <<0, 5>>, <<3, 5>> } }

\* deserialize, as Deserialize above, on a feed of the dispatch-table events.
DeserializeDispatch ==
    /\ pc = "start"
    /\ \E document \in DispatchMetadataFeeds, allowlist \in Allowlists, n \in 0..MaxLen :
        \E templates \in [1..n -> DispatchTemplates] :
            /\ feed' = document
            /\ event_types' = allowlist
            /\ raw_events' = extract_events(templates)
            /\ periods' = extract_periods(document)
    /\ possession_team' = None
    /\ events' = << >>
    /\ idx' = 0
    /\ pc' = "loop"
    /\ UNCHANGED <<locals, error, dt_str, dt_out, stream, factory>>

\* The pass over such a feed.  Every record names a known team and the declared
\* period and none is an end marker, so UnknownTeam, SkipUnknownPeriod and
\* EndPeriod are never enabled and are left out.
NextDispatch ==
    \/ DeserializeDispatch
    \/ StartPeriod
    \/ SkipPlayerOn
    \/ SkipNotStarted
    \/ DispatchEvent
    \/ Return

SpecDispatch == Init /\ [][NextDispatch]_vars

\* =================================================================== claims
\* Vocabulary of the claims, stated on the inputs alone.  Positions are the
\* 0-based feed positions of the code.
RawAt(i) == raw_events[i + 1]

Positions == 0..(Len(raw_events) - 1)

TeamIds == {teams[1].team_id, teams[2].team_id}

KnownTeam(i) == RawAt(i).contestant_id \in TeamIds

\* The metadata entries of the period a raw event names that were played.
EntriesOf(i) ==
    { k \in 1..Len(feed.periods) :
        /\ feed.periods[k].number = RawAt(i).period_id
        /\ ~(feed.periods[k].startFrameIdx = 0 /\ feed.periods[k].endFrameIdx = 0) }

KnownPeriod(i) == EntriesOf(i) # {}

IsMarker(i) ==
    RawAt(i).type_id \in
        {EVENT_TYPE_START_PERIOD, EVENT_TYPE_END_PERIOD, EVENT_TYPE_PLAYER_ON}

\* Raw event k is a period-start marker of the period of raw event i.
StartMarkerFor(k, i) ==
    /\ RawAt(k).type_id = EVENT_TYPE_START_PERIOD
    /\ RawAt(k).period_id = RawAt(i).period_id

\* A period-start marker of i's period precedes i in the feed.
MarkerBefore(i) == \E k \in Positions : k < i /\ StartMarkerFor(k, i)

\* The loop has taken up raw event i: it completed i's iteration or raised in it.
Handled(i) == pc \in {"loop", "returned", "raised"} /\ (i < idx \/ (pc = "raised" /\ i = idx))

\* The feed position an emitted event comes from.
SourceOf(event) == event.event_id - 1

\* C1: no ordinary event of period P is in the output unless a period-start
\* marker for P was processed before it.
C1_OrdinaryEventsFollowTheirPeriodStart ==
    \A n \in 1..Len(events) : MarkerBefore(SourceOf(events[n]))

\* C2: a player-off with qualifier 55 = X in a started period yields a
\* substitution whose replacement is the player of the immediately previous or
\* next player-on with event id X; with no such neighbour the parse ends with
\* DeserializationError.
C2_SubstitutionResolvedOrIntegrityError ==
    \A i \in Positions :
        ( /\ RawAt(i).type_id = EVENT_TYPE_PLAYER_OFF
          /\ 55 \in DOMAIN RawAt(i).qualifiers
          /\ KnownTeam(i) /\ KnownPeriod(i) /\ MarkerBefore(i)
          /\ Handled(i) )
        => LET IsOn(k) ==
                   /\ k \in Positions
                   /\ RawAt(k).type_id = EVENT_TYPE_PLAYER_ON
                   /\ RawAt(k).event_id = RawAt(i).qualifiers[55]
               neighbour == IF IsOn(i - 1) THEN i - 1 ELSE i + 1
           IN  IF IsOn(i - 1) \/ IsOn(i + 1)
                 THEN \A n \in 1..Len(events) :
                          SourceOf(events[n]) = i
                          => events[n].replacement_player = RawAt(neighbour).player_id
                 ELSE pc = "raised" /\ idx = i /\ error = "DeserializationError"

\* A fraction of fewer than three digits, padded with zeros to three.
PadLeft(frac) ==
    [k \in 1..3 |-> IF k <= 3 - Len(frac) THEN 0 ELSE frac[k - (3 - Len(frac))]]

PadRight(frac) == [k \in 1..3 |-> IF k <= Len(frac) THEN frac[k] ELSE 0]

ShortFractionParsed ==
    /\ pc = "parsed"
    /\ dt_str.dot
    /\ Len(dt_str.frac) \in {1, 2}

\* C3 as stated: a fraction of one or two digits parses to the instant of the
\* fraction padded on the right ("...00.5" = "...00.500").
C3_ShortFractionPaddedRight ==
    ShortFractionParsed
    => dt_out = _parse_insight_datetime([dt_str EXCEPT !.frac = PadRight(dt_str.frac)])

\* C3 (amended): a fraction of one or two digits parses to the instant of the
\* fraction padded on the left, i.e. it is read as a count of milliseconds
\* ("...00.5" = "...00.005").
C3_ShortFractionPaddedLeft ==
    ShortFractionParsed
    => /\ ~Raised(dt_out)
       /\ dt_out = _parse_insight_datetime([dt_str EXCEPT !.frac = PadLeft(dt_str.frac)])
       /\ dt_out.microsecond = 1000 * IntOfDigits(dt_str.frac)

\* "2021-05-01T20:00:00.5" parsed to 19:00:00.005 UTC.
C3_Witness ==
    /\ pc = "parsed"
    /\ dt_str = [date |-> MatchDate, time |-> 72000, dot |-> TRUE, frac |-> <<5>>]
    /\ dt_out = Datetime(MatchDate, 68400, 5000)

\* C4: each neighbour lookup of an iteration returns the raw event at
\* idx + offset when that position exists and None otherwise.
C4_NeighbourInRangeOrNull ==
    locals.idx >= 0
    => LET Expected(offset) ==
               IF locals.idx + offset \in Positions
                   THEN RawAt(locals.idx + offset) ELSE None_ev
       IN  /\ locals.previous_event = Expected(-1)
           /\ locals.next_event = Expected(1)
           /\ locals.next_next_event = Expected(2)

\* The period of raw event i had a start timestamp when i was processed: the
\* metadata gave it a non-zero start frame, or a period-start marker came first.
StartedAt(i) ==
    \/ \E k \in EntriesOf(i) :
           /\ \A j \in EntriesOf(i) : k <= j
           /\ feed.periods[k].startFrameIdx # 0
    \/ MarkerBefore(i)

IsBallOwning(k) == RawAt(k).type_id \in BALL_OWNING_EVENTS

\* The team of the last raw event at or before i among `owners`, None if none.
TeamOfLast(owners, i) ==
    LET before == {k \in owners : k <= i}
    IN  IF before = {} THEN None
        ELSE RawAt(CHOOSE k \in before : \A j \in before : j <= k).contestant_id

\* C5 as stated: the ball-owning team of an emitted event is the team of the
\* nearest raw event at or before it whose type is ball-owning, whatever was
\* skipped in between.
C5_PossessionFromNearestBallOwningRawEvent ==
    \A n \in 1..Len(events) :
        events[n].ball_owning_team =
            TeamOfLast({k \in Positions : IsBallOwning(k)}, SourceOf(events[n]))

\* C5 (amended): the ball-owning team of an emitted event is the team of the
\* nearest raw event at or before it whose type is ball-owning and which the
\* period checks did not skip (known period, started when processed); the
\* inclusion filter plays no part.
C5_PossessionFromNearestDispatchedBallOwningEvent ==
    \A n \in 1..Len(events) :
        events[n].ball_owning_team =
            TeamOfLast({k \in Positions :
                            IsBallOwning(k) /\ KnownPeriod(k) /\ StartedAt(k)},
                       SourceOf(events[n]))

\* A generic event keeps the possession of an earlier home pass although the
\* raw event right before it is an away pass, skipped with its period.
C5_Witness ==
    \E n \in 1..Len(events) :
        LET i == SourceOf(events[n])
        IN  /\ i >= 2
            /\ events[n].kind = "generic"
            /\ events[n].ball_owning_team = "home"
            /\ IsBallOwning(i - 1)
            /\ RawAt(i - 1).contestant_id = "away"
            /\ ~KnownPeriod(i - 1)

\* C6: emitted events appear in the order of the raw events they come from.
C6_OutputInFeedOrder ==
    \A m, n \in 1..Len(events) :
        m < n => SourceOf(events[m]) < SourceOf(events[n])

\* Two events were emitted and a raw event between them emitted nothing.
C6_Witness ==
    /\ pc = "returned"
    /\ Len(events) = 2
    /\ SourceOf(events[1]) + 1 < SourceOf(events[2])

\* C7: the iteration that meets a raw event of an unknown team ends the parse
\* with DeserializationError, whatever its type or period, and a parse that
\* raised never returns an event list.
C7_UnknownTeamAbortsTheParse ==
    /\ [][ (pc = "loop" /\ idx < Len(raw_events) /\ ~KnownTeam(idx))
           => (pc' = "raised" /\ error' = "DeserializationError" /\ idx' = idx) ]_vars
    /\ [][ pc = "raised" => pc' = "raised" ]_vars
    /\ [](pc = "returned" => \A i \in Positions : KnownTeam(i))

\* A period-start marker of an unknown team ended a parse that had already
\* accepted an event.
C7_Witness ==
    /\ pc = "raised"
    /\ error = "DeserializationError"
    /\ Len(events) >= 1
    /\ ~KnownTeam(idx)
    /\ RawAt(idx).type_id = EVENT_TYPE_START_PERIOD

\* The period-start markers of i's period that precede i.
MarkersBefore(i) == {k \in Positions : k < i /\ StartMarkerFor(k, i)}

\* C8: the timestamp of an emitted event (goals with qualifier 374, formation
\* changes and substitutions aside) is its raw timestamp minus the timestamp
\* of the last period-start marker of its period processed before it.
C8_TimestampRelativeToLastStartMarker ==
    \A n \in 1..Len(events) :
        LET i == SourceOf(events[n])
        IN  ( /\ ~( RawAt(i).type_id = EVENT_TYPE_SHOT_GOAL
                    /\ 374 \in DOMAIN RawAt(i).qualifiers )
              /\ RawAt(i).type_id \notin
                     {EVENT_TYPE_FORMATION_CHANGE, EVENT_TYPE_PLAYER_OFF} )
            => /\ MarkersBefore(i) # {}
               /\ LET k == CHOOSE m \in MarkersBefore(i) :
                               \A j \in MarkersBefore(i) : j <= m
                  IN  events[n].timestamp =
                          Timedelta((RawAt(i).timestamp.second
                                         - RawAt(k).timestamp.second) * 1000000
                                    + RawAt(i).timestamp.microsecond
                                    - RawAt(k).timestamp.microsecond)

\* The event kind the dispatch table gives a type code of the feeds.
KindOfType(type_id) ==
    IF type_id = EVENT_TYPE_PASS THEN "pass"
    ELSE IF type_id = EVENT_TYPE_SHOT_GOAL THEN "shot"
    ELSE IF type_id = EVENT_TYPE_PLAYER_OFF THEN "substitution"
    ELSE "generic"

\* The raw events C9 expects in the output.
ExpectedSources ==
    { i \in Positions :
        /\ ~IsMarker(i)
        /\ KnownPeriod(i)
        /\ StartedAt(i)
        /\ (event_types = {} \/ KindOfType(RawAt(i).type_id) \in event_types) }

\* C9: a completed parse holds exactly one event for each raw event that is no
\* marker, belongs to a known period that has a start timestamp when it is
\* processed, and passes the inclusion filter, and no other event; a type
\* outside the dispatch table gives a generic event and never a failure.
C9_ExactlyTheAcceptedOrdinaryEvents ==
    /\ pc = "returned"
       => /\ \A i \in ExpectedSources :
                 Cardinality({n \in 1..Len(events) : SourceOf(events[n]) = i}) = 1
          /\ \A n \in 1..Len(events) :
                 /\ SourceOf(events[n]) \in ExpectedSources
                 /\ RawAt(SourceOf(events[n])).type_id = EVENT_TYPE_OTHER
                    => /\ events[n].kind = "generic"
                       /\ events[n].event_name = EVENT_TYPE_OTHER
    /\ (pc = "raised" /\ KnownTeam(idx))
       => RawAt(idx).type_id # EVENT_TYPE_OTHER

\* A completed parse that emitted a generic event for an unlisted type and
\* dropped at least one other raw event.
C9_Witness ==
    /\ pc = "returned"
    /\ Len(events) = 2
    /\ Len(raw_events) = 3
    /\ \E n \in 1..2 : /\ events[n].kind = "generic"
                       /\ RawAt(SourceOf(events[n])).type_id = EVENT_TYPE_OTHER

\* C10: the iteration of a raw event with a known team and an unknown period
\* appends nothing, changes neither the periods nor the possession, raises
\* nothing and moves on to the next raw event.
C10_UnknownPeriodIsSkipped ==
    [][ (pc = "loop" /\ idx < Len(raw_events) /\ KnownTeam(idx) /\ ~KnownPeriod(idx))
        => /\ events' = events
           /\ periods' = periods
           /\ possession_team' = possession_team
           /\ pc' = "loop"
           /\ error' = error
           /\ idx' = idx + 1 ]_vars

\* A period-start marker of an undeclared period was passed over, and the
\* parse went on to emit a later event and to return.
C10_Witness ==
    /\ pc = "returned"
    /\ \E i \in Positions :
           /\ RawAt(i).type_id = EVENT_TYPE_START_PERIOD
           /\ KnownTeam(i)
           /\ ~KnownPeriod(i)
           /\ \E n \in 1..Len(events) : SourceOf(events[n]) > i
    /\ possession_team # None

\* C11: every emitted event has ball state DEAD exactly when the type code of
\* its raw event is in the dead-ball set, and ALIVE otherwise, whatever the
\* events around it, the possession and the state of the period.
C11_BallStateFromTypeAlone ==
    \A n \in 1..Len(events) :
        /\ events[n].ball_state \in {"DEAD", "ALIVE"}
        /\ events[n].ball_state = "DEAD"
           <=> RawAt(SourceOf(events[n])).type_id \in DEAD_BALL_EVENTS

\* A dead-ball event was emitted between two events with the ball alive, the
\* first of them before any team had possession.
C11_Witness ==
    /\ Len(events) = 3
    /\ events[1].ball_state = "ALIVE" /\ events[1].ball_owning_team = None
    /\ events[2].ball_state = "DEAD"
    /\ events[3].ball_state = "ALIVE" /\ events[3].ball_owning_team # None

\* C12: without a tag the factories read only the first byte (metadata) or the
\* first line (events) to classify the stream and the selected parser then
\* reads the stream from offset 0 to its end; with a tag nothing is read for
\* detection and the tag alone selects the parser, whatever the stream holds
\* (compared after upper-casing for metadata, exactly for events).
C12_DetectionIsNonConsuming ==
    pc = "selected"
    => /\ ~factory.tag.given
          => /\ factory.detection =
                    SubSeq(factory.content, 1, Min(1, Len(factory.content)))
             /\ factory.selected # None
                => /\ stream.offset = Len(factory.content)
                   /\ ~Raised(factory.result)
                      => factory.result.read = factory.content
       /\ factory.tag.given
          => /\ factory.detection = << >>
             /\ factory.selected =
                    IF factory.function = "get_metadata_parser"
                        THEN (IF Upper(factory.tag.value) = <<"J", "S", "O", "N">>
                                THEN "MetadataJSONParser" ELSE None)
                        ELSE (IF factory.tag.value = "Insight"
                                THEN "InsightParser" ELSE None)

\* An event stream of several lines was classified from its first line and
\* the Insight parser then read all of its lines.
C12_Witness ==
    /\ pc = "selected"
    /\ factory.function = "get_event_parser"
    /\ ~factory.tag.given
    /\ Len(factory.content) >= 2
    /\ factory.detection = <<"optaEvent">>
    /\ ~Raised(factory.result)
    /\ factory.result.read = factory.content

\* The entries of the metadata document whose frame indices are not both zero.
PlayedEntries ==
    { k \in 1..Len(feed.periods) :
        feed.periods[k].startFrameIdx # 0 \/ feed.periods[k].endFrameIdx # 0 }

\* The n-th played entry in document order.
NthPlayed(n) ==
    CHOOSE k \in PlayedEntries :
        Cardinality({j \in PlayedEntries : j < k}) = n - 1

\* C13: the extracted periods are, in document order, exactly the entries
\* whose startFrameIdx and endFrameIdx are not both zero.
C13_ExactlyThePlayedPeriods ==
    pc \in {"extracted", "loop", "returned", "raised"}
    => /\ Len(periods) = Cardinality(PlayedEntries)
       /\ \A n \in 1..Len(periods) :
              periods[n].id = feed.periods[NthPlayed(n)].number

\* Of three entries the unplayed middle one was dropped; one of the two kept
\* has a zero start index and the other a zero end index.
C13_Witness ==
    /\ pc = "extracted"
    /\ Len(feed.periods) = 3
    /\ feed.periods[1].startFrameIdx = 0 /\ feed.periods[1].endFrameIdx # 0
    /\ feed.periods[2].startFrameIdx = 0 /\ feed.periods[2].endFrameIdx = 0
    /\ feed.periods[3].startFrameIdx # 0 /\ feed.periods[3].endFrameIdx = 0
    /\ Len(periods) = 2
    /\ periods[1].id = 1 /\ periods[2].id = 3

\* Raw event k is a player-on marker with the event id that the player-off at
\* position i refers to in qualifier 55.
IsPlayerOnFor(k, i) ==
    /\ k \in Positions
    /\ RawAt(k).type_id = EVENT_TYPE_PLAYER_ON
    /\ RawAt(k).event_id = RawAt(i).qualifiers[55]

\* The player-off at position i, in a period opened by a start marker, has
\* been taken up by the loop and has a matching player-on right before or
\* right after it.
MatchedPlayerOff(i) ==
    /\ RawAt(i).type_id = EVENT_TYPE_PLAYER_OFF
    /\ 55 \in DOMAIN RawAt(i).qualifiers
    /\ KnownTeam(i) /\ KnownPeriod(i) /\ MarkerBefore(i)
    /\ Handled(i)
    /\ IsPlayerOnFor(i - 1, i) \/ IsPlayerOnFor(i + 1, i)

\* The matching neighbour: the previous raw event if it matches, else the next.
CounterpartOf(i) == IF IsPlayerOnFor(i - 1, i) THEN i - 1 ELSE i + 1

\* C14: the substitution's position is the position-line entry of qualifier 44
\* of the matched player-on; without qualifier 44 the substitution is emitted
\* all the same, with no position, and the parse does not fail.
C14_PositionFromQualifier44 ==
    \A i \in Positions :
        MatchedPlayerOff(i)
        => LET qualifiers == RawAt(CounterpartOf(i)).qualifiers
           IN  IF 44 \in DOMAIN qualifiers
                 THEN \A n \in 1..Len(events) :
                          SourceOf(events[n]) = i
                          => events[n].position = position_line_mapping[qualifiers[44]]
                 ELSE /\ ~(pc = "raised" /\ idx = i)
                      /\ should_include_event([kind |-> "substitution"], event_types)
                         => \E n \in 1..Len(events) :
                                /\ SourceOf(events[n]) = i
                                /\ events[n].kind = "substitution"
                                /\ events[n].position = None

\* C15: every emitted formation change and substitution has a relative
\* timestamp that is a duration of at least zero, and the clamp
\* max(timedelta(0), timestamp) never ends the parse with an exception.
C15_ClampedTimestampNeverAborts ==
    /\ \A n \in 1..Len(events) :
           events[n].kind \in {"formation_change", "substitution"}
           => /\ events[n].timestamp.kind = "timedelta"
              /\ events[n].timestamp.v >= 0
    /\ ~( /\ pc = "raised"
          /\ error = "TypeError"
          /\ \/ RawAt(idx).type_id = EVENT_TYPE_FORMATION_CHANGE
             \/ /\ RawAt(idx).type_id = EVENT_TYPE_PLAYER_OFF
                /\ 55 \in DOMAIN RawAt(idx).qualifiers )

\* C16: an emitted event of the keeper family is a generic event named
\* "block" exactly when its raw event is a save carrying qualifier 94; every
\* other keeper-family event is a goalkeeper event.
C16_BlockOnlyForSaveWithQualifier94 ==
    \A n \in 1..Len(events) :
        LET raw_event == RawAt(SourceOf(events[n]))
        IN  raw_event.type_id \in KEEPER_EVENTS
            => IF raw_event.type_id = "SAVE" /\ 94 \in DOMAIN raw_event.qualifiers
                 THEN events[n].kind = "generic" /\ events[n].event_name = "block"
                 ELSE events[n].kind = "goalkeeper"

\* The roster of the team with identifier team_id.
RosterOf(team_id) ==
    UNION { teams[k].players : k \in {j \in 1..2 : teams[j].team_id = team_id} }

\* C17: the replacement player of every emitted substitution is a member of
\* the roster of the player-off event's team, and the player-on event it was
\* taken from is an immediate neighbour of that same team.
C17_ReplacementFromTheSameTeam ==
    \A n \in 1..Len(events) :
        events[n].kind = "substitution"
        => LET i == SourceOf(events[n])
           IN  /\ events[n].replacement_player # None
               /\ events[n].replacement_player \in RosterOf(RawAt(i).contestant_id)
               /\ \E k \in {i - 1, i + 1} :
                      /\ IsPlayerOnFor(k, i)
                      /\ RawAt(k).contestant_id = RawAt(i).contestant_id
                      /\ RawAt(k).player_id = events[n].replacement_player

====
